---- MODULE Spec2Model ----
(***************************************************************************)
(* vectils 0.1.0, src/lib.rs: the trait Vector2d<T> (a directed 2D segment *)
(* given by four accessors, with default methods in_range, w, h, delta,    *)
(* in_dom, linear, cross), its two implementations ((T,T,T,T) and [T;4])   *)
(* and the test tests::test_cross.                                         *)
(*                                                                         *)
(* T is instantiated at a signed two's-complement integer type: +, -, *    *)
(* wrap modulo 2^BITS in the release profile and panic on overflow when    *)
(* overflow checks are on; / truncates toward zero and panics on a zero    *)
(* divisor (and on MIN / -1).  A call that panics returns nothing: its     *)
(* outcome is Panic.                                                       *)
(***************************************************************************)
EXTENDS Integers, Sequences, FiniteSets

VARIABLES
    T,                \* the integer type the trait is instantiated at: BITS, MIN, MAX
    overflow_checks,  \* TRUE: overflow panics (debug, test); FALSE: it wraps (release)
    pc,               \* the call to make, then how it ended
    v1, v2,           \* the two segments (test_cross: v1, v2)
    p1, p2,           \* the two results of cross (test_cross: p1, p2)
    a, b, c,          \* the arguments of in_range
    pt_x,             \* the argument of in_dom and linear
    ret               \* what the called operations returned

vars == <<T, overflow_checks, pc, v1, v2, p1, p2, a, b, c, pt_x, ret>>

(***************************************************************************)
(* Bounds of the model.                                                    *)
(***************************************************************************)
\* the coordinates of the segments handed to cross range over -1..MaxCoord
MaxCoord == 1
\* the width of T where every value of the type is enumerated
NarrowBits == 3
\* the width of T where the bounded coordinates cannot overflow
WideBits == 16
\* the arguments of in_range and in_dom range over -MaxArg..MaxArg
MaxArg == 3
\* the coordinates handed to both adapters range over 0..MaxAdapterCoord
MaxAdapterCoord == 1

Coords == (0 - 1)..MaxCoord
Args == (0 - MaxArg)..MaxArg
AdapterCoords == 0..MaxAdapterCoord
\* the coordinate values test_cross uses
TestCoords == {0, 5}

(***************************************************************************)
(* The integer type T.                                                     *)
(***************************************************************************)
IntType(n) == [BITS |-> n, MIN |-> 0 - 2^(n - 1), MAX |-> 2^(n - 1) - 1]
MinT == T.MIN
MaxT == T.MAX

Fits(n) == MinT <= n /\ n <= MaxT

Wrap(n) == IF Fits(n) THEN n ELSE ((n - MinT) % (MaxT - MinT + 1)) + MinT

\* an arithmetic result that does not fit T panics when overflow checks are on
Overflows(n) == overflow_checks /\ ~Fits(n)

Abs(n) == IF n < 0 THEN 0 - n ELSE n

Add(x, y) == Wrap(x + y)
Sub(x, y) == Wrap(x - y)
Mul(x, y) == Wrap(x * y)

\* integer division truncates toward zero; y # 0
Div(x, y) ==
    IF (x < 0) = (y < 0) THEN Wrap(Abs(x) \div Abs(y))
    ELSE Wrap(0 - (Abs(x) \div Abs(y)))

\* x / y panics on a zero divisor and on MIN / -1, whatever the profile
DivPanics(x, y) == y = 0 \/ (x = MinT /\ y = 0 - 1)

(***************************************************************************)
(* The two implementations: a tuple (T,T,T,T), fields .0 to .3, and an     *)
(* array [T;4], indices 0 to 3.                                            *)
(***************************************************************************)
Tuple(x0, y0, x1, y1) == [ty |-> "tuple", val |-> <<x0, y0, x1, y1>>]
Array(x0, y0, x1, y1) ==
    [ty |-> "array", val |-> [i \in 0..3 |-> <<x0, y0, x1, y1>>[i + 1]]]

\* impl Vector2d<T> for (T,T,T,T): self.0 is the first component of the tuple
Tuple_xi(self) == self.val[1]
Tuple_yi(self) == self.val[2]
Tuple_xf(self) == self.val[3]
Tuple_yf(self) == self.val[4]

\* faulty variant: yi reads the third element of the array
Array_yi_swapped(self) == self.val[2]

\* impl Vector2d<T> for [T;4]
Array_xi(self) == self.val[0]
Array_yi(self) == self.val[1]
Array_xf(self) == self.val[2]
Array_yf(self) == self.val[3]

xi(self) == IF self.ty = "tuple" THEN Tuple_xi(self) ELSE Array_xi(self)
yi(self) == IF self.ty = "tuple" THEN Tuple_yi(self) ELSE Array_yi(self)
xf(self) == IF self.ty = "tuple" THEN Tuple_xf(self) ELSE Array_xf(self)
yf(self) == IF self.ty = "tuple" THEN Tuple_yf(self) ELSE Array_yf(self)

(***************************************************************************)
(* The default methods of the trait.                                       *)
(***************************************************************************)
\* faulty variant: the bounds are not put in order
in_range_noswap(a0, b0, c0) == ~(a0 > c0 \/ b0 < c0)

\* if a > b the bounds are swapped; then !(a > c || b < c)
in_range(a0, b0, c0) ==
    LET a1 == IF a0 > b0 THEN b0 ELSE a0
        b1 == IF a0 > b0 THEN a0 ELSE b0
    IN  ~(a1 > c0 \/ b1 < c0)

\* faulty variant: the width is normalised to its absolute value
w_abs(self) == Abs(Sub(xf(self), xi(self)))

w(self) == Sub(xf(self), xi(self))
w_panics(self) == Overflows(xf(self) - xi(self))

h(self) == Sub(yf(self), yi(self))
h_panics(self) == Overflows(yf(self) - yi(self))

delta(self) == Div(w(self), h(self))
delta_panics(self) ==
    w_panics(self) \/ h_panics(self) \/ DivPanics(w(self), h(self))

\* faulty variant: the domain is taken from the y coordinates
in_dom_y(self, x) == in_range(yi(self), yf(self), x)

in_dom(self, x) == in_range(xi(self), xf(self), x)

linear(self, x) == Add(Mul(delta(self), x), yi(self))
linear_panics(self, x) ==
    \/ delta_panics(self)
    \/ Overflows(delta(self) * x)
    \/ Overflows(Mul(delta(self), x) + yi(self))

\* Option<[T;2]>; the outcome of a call that returned a T or a bool; of a call
\* that panicked; and a result not yet assigned
Some(pt) == [kind |-> "Some", val |-> pt]
None == [kind |-> "None", val |-> <<>>]
Ok(x) == [kind |-> "Ok", val |-> <<x>>]
Panic == [kind |-> "Panic", val |-> <<>>]
Unset == [kind |-> "Unset", val |-> <<>>]

\* (self.yi() - b.yi()) * self.w() * b.w()
Numerator(self, o) == Mul(Mul(Sub(yi(self), yi(o)), w(self)), w(o))

\* faulty variant: the two products are added
Denominator_sum(self, o) == Add(Mul(h(o), w(self)), Mul(h(self), w(o)))

\* b.h() * self.w() - self.h() * b.w()
Denominator(self, o) == Sub(Mul(h(o), w(self)), Mul(h(self), w(o)))

insct(self, o) == Div(Numerator(self, o), Denominator(self, o))

insct_panics(self, o) ==
    LET dy == Sub(yi(self), yi(o))
        ws == w(self)
        wo == w(o)
        hs == h(self)
        ho == h(o)
    IN  \/ Overflows(yi(self) - yi(o))
        \/ Overflows(dy * ws)
        \/ Overflows(Mul(dy, ws) * wo)
        \/ Overflows(ho * ws)
        \/ Overflows(hs * wo)
        \/ Overflows(Mul(ho, ws) - Mul(hs, wo))
        \/ DivPanics(Numerator(self, o), Denominator(self, o))

\* faulty variant: a point is returned when x is in either domain
cross_insct_either(self, o) ==
    IF insct_panics(self, o) THEN Panic
    ELSE LET x == insct(self, o)
         IN  IF in_dom(self, x) \/ in_dom(o, x) THEN
                 IF linear_panics(self, x) THEN Panic
                 ELSE Some(<<x, linear(self, x)>>)
             ELSE None

\* the branch of cross taken when the two deltas differ
cross_insct(self, o) ==
    IF insct_panics(self, o) THEN Panic
    ELSE LET x == insct(self, o)
         IN  IF in_dom(self, x) /\ in_dom(o, x) THEN
                 IF linear_panics(self, x) THEN Panic
                 ELSE Some(<<x, linear(self, x)>>)
             ELSE None

\* faulty variant: the deltas are not compared
cross_unguarded(self, o) ==
    IF delta_panics(self) \/ delta_panics(o) THEN Panic
    ELSE cross_insct(self, o)

cross(self, o) ==
    IF delta_panics(self) \/ delta_panics(o) THEN Panic
    ELSE IF delta(self) # delta(o) THEN cross_insct(self, o)
    ELSE None

(***************************************************************************)
(* tests::test_cross, over any two arrays: p1 = v1.cross(&v2),             *)
(* p2 = v2.cross(&v1), assert_eq!(p1, p2).  A panic in cross ends the      *)
(* test before the later lines run.  The test instantiates T at f64; here  *)
(* T is an integer, and the test's own values divide exactly in both.      *)
(***************************************************************************)
test_cross ==
    /\ pc = "test_cross"
    /\ LET r1 == cross(v1, v2)
           r2 == cross(v2, v1)
       IN  IF r1 = Panic THEN
               /\ pc' = "panicked"
               /\ UNCHANGED <<p1, p2>>
           ELSE IF r2 = Panic THEN
               /\ pc' = "panicked"
               /\ p1' = r1
               /\ UNCHANGED p2
           ELSE
               /\ p1' = r1
               /\ p2' = r2
               /\ pc' = IF r1 = r2 THEN "passed" ELSE "failed"
    /\ UNCHANGED <<T, overflow_checks, v1, v2, a, b, c, pt_x, ret>>

\* the arrays of four coordinates drawn from S
Arrays(S) == {Array(x0, y0, x1, y1) : x0 \in S, y0 \in S, x1 \in S, y1 \in S}
Tuples(S) == {Tuple(x0, y0, x1, y1) : x0 \in S, y0 \in S, x1 \in S, y1 \in S}

\* test_cross runs under the test profile: overflow checks are on
InitCross(S) ==
    /\ T = IntType(WideBits)
    /\ overflow_checks = TRUE
    /\ pc = "test_cross"
    /\ v1 \in Arrays(S)
    /\ v2 \in Arrays(S)
    /\ p1 = Unset /\ p2 = Unset
    /\ a = 0 /\ b = 0 /\ c = 0 /\ pt_x = 0 /\ ret = <<>>

Init == InitCross(Coords)
Next == test_cross
Spec == Init /\ [][Next]_vars

\* test_cross over the coordinate values the test itself uses
InitTest == InitCross(TestCoords)
NextTest == test_cross
SpecTest == InitTest /\ [][NextTest]_vars

(***************************************************************************)
(* Calls of the other operations, each on arguments drawn from a bounded   *)
(* set.  ret holds what the calls returned, in the order they were made.   *)
(***************************************************************************)
\* a call of a method that returns a T
Call(panics, value) == IF panics THEN Panic ELSE Ok(value)

\* in_range(a, b, c), in_range(b, a, c), in_range(a, b, a), in_range(a, b, b)
call_in_range ==
    /\ pc = "in_range"
    /\ ret' = <<in_range(a, b, c), in_range(b, a, c), in_range(a, b, a), in_range(a, b, b)>>
    /\ pc' = "done"
    /\ UNCHANGED <<T, overflow_checks, v1, v2, p1, p2, a, b, c, pt_x>>

InitRange ==
    /\ T = IntType(WideBits)
    /\ overflow_checks = TRUE
    /\ pc = "in_range"
    /\ a \in Args /\ b \in Args /\ c \in Args
    /\ v1 = Array(0, 0, 0, 0) /\ v2 = Array(0, 0, 0, 0)
    /\ p1 = Unset /\ p2 = Unset
    /\ pt_x = 0 /\ ret = <<>>

NextRange == call_in_range
SpecRange == InitRange /\ [][NextRange]_vars

\* v1.in_dom(v1.xi()), v1.in_dom(v1.xf()), v1.in_dom(pt_x)
call_in_dom ==
    /\ pc = "in_dom"
    /\ ret' = <<in_dom(v1, xi(v1)), in_dom(v1, xf(v1)), in_dom(v1, pt_x)>>
    /\ pc' = "done"
    /\ UNCHANGED <<T, overflow_checks, v1, v2, p1, p2, a, b, c, pt_x>>

InitDom ==
    /\ T = IntType(WideBits)
    /\ overflow_checks = TRUE
    /\ pc = "in_dom"
    /\ v1 \in Arrays(Coords) \cup Tuples(Coords)
    /\ pt_x \in Args
    /\ v2 = Array(0, 0, 0, 0)
    /\ p1 = Unset /\ p2 = Unset
    /\ a = 0 /\ b = 0 /\ c = 0 /\ ret = <<>>

NextDom == call_in_dom
SpecDom == InitDom /\ [][NextDom]_vars

\* every derived operation on s (cross with o, in_dom and linear at x)
Derived(s, o, x) ==
    [w |-> Call(w_panics(s), w(s)),
     h |-> Call(h_panics(s), h(s)),
     delta |-> IF delta_panics(s) THEN Panic ELSE Ok(delta(s)),
     in_dom |-> Ok(in_dom(s, x)),
     linear |-> IF linear_panics(s, x) THEN Panic ELSE Ok(linear(s, x)),
     cross |-> cross(s, o)]

call_derived ==
    /\ pc = "derived"
    /\ ret' = Derived(v1, v2, pt_x)
    /\ pc' = "done"
    /\ UNCHANGED <<T, overflow_checks, v1, v2, p1, p2, a, b, c, pt_x>>

\* each of the two segments is a tuple or an array
InitAdapters ==
    /\ T = IntType(WideBits)
    /\ overflow_checks = TRUE
    /\ pc = "derived"
    /\ v1 \in Arrays(AdapterCoords) \cup Tuples(AdapterCoords)
    /\ v2 \in Arrays(AdapterCoords) \cup Tuples(AdapterCoords)
    /\ pt_x \in AdapterCoords
    /\ p1 = Unset /\ p2 = Unset
    /\ a = 0 /\ b = 0 /\ c = 0 /\ ret = <<>>

NextAdapters == call_derived
SpecAdapters == InitAdapters /\ [][NextAdapters]_vars

\* v1.w(), v1.h()
call_w_h ==
    /\ pc = "w_h"
    /\ ret' = <<Call(w_panics(v1), w(v1)), Call(h_panics(v1), h(v1))>>
    /\ pc' = "done"
    /\ UNCHANGED <<T, overflow_checks, v1, v2, p1, p2, a, b, c, pt_x>>

\* every segment of a narrow T, in both profiles
InitWH ==
    /\ T = IntType(NarrowBits)
    /\ overflow_checks \in BOOLEAN
    /\ pc = "w_h"
    /\ v1 \in Arrays(T.MIN..T.MAX)
    /\ v2 = Array(0, 0, 0, 0)
    /\ p1 = Unset /\ p2 = Unset
    /\ a = 0 /\ b = 0 /\ c = 0 /\ pt_x = 0 /\ ret = <<>>

NextWH == call_w_h
SpecWH == InitWH /\ [][NextWH]_vars

(***************************************************************************)
(* Vocabulary of the properties.                                           *)
(***************************************************************************)
Ran == pc # "test_cross"
Returned == pc \in {"passed", "failed"}

Lo(S) == IF xi(S) <= xf(S) THEN xi(S) ELSE xf(S)
Hi(S) == IF xi(S) <= xf(S) THEN xf(S) ELSE xi(S)
\* x is in the inclusive x-domain of S
Within(S, x) == Lo(S) <= x /\ x <= Hi(S)
\* pt is on the infinite line through the two endpoints of S
OnLine(S, pt) == (pt[2] - yi(S)) * (xf(S) - xi(S)) = (yf(S) - yi(S)) * (pt[1] - xi(S))
\* both heights are non-zero and the two deltas differ
DeltasDiffer == h(v1) # 0 /\ h(v2) # 0 /\ delta(v1) # delta(v2)
\* both heights are non-zero and the two deltas are equal
DeltasEqual == h(v1) # 0 /\ h(v2) # 0 /\ delta(v1) = delta(v2)

(***************************************************************************)
(* C1: cross is commutative: for two segments of non-zero height whose     *)
(* deltas differ and whose computed intersection x lies in both x-domains, *)
(* v1.cross(v2) and v2.cross(v1) return the same point (same x, same y).   *)
(***************************************************************************)
C1_CrossCommutes ==
    (/\ Ran
     /\ DeltasDiffer
     /\ Denominator(v1, v2) # 0
     /\ Within(v1, insct(v1, v2))
     /\ Within(v2, insct(v1, v2)))
    => (pc = "passed" /\ p1.kind = "Some" /\ p1 = p2)

(***************************************************************************)
(* C3: a point returned by cross lies on the infinite line through the     *)
(* endpoints of both segments: (y - S.yi) * S.w = S.h * (x - S.xi) for     *)
(* S = self and S = other.                                                 *)
(***************************************************************************)
C3_PointOnBothLines ==
    Returned =>
        /\ p1.kind = "Some" => (OnLine(v1, p1.val) /\ OnLine(v2, p1.val))
        /\ p2.kind = "Some" => (OnLine(v1, p2.val) /\ OnLine(v2, p2.val))

(***************************************************************************)
(* C4: parallel lines never intersect: two segments of non-zero height     *)
(* with exactly equal delta give None in both call orders, whether or not  *)
(* their x-domains overlap or their coordinates coincide.                  *)
(***************************************************************************)
C4_ParallelNone ==
    (Ran /\ DeltasEqual) => (pc = "passed" /\ p1 = None /\ p2 = None)

\* equal deltas, overlapping x-domains, and lines that do meet (the deltas are
\* equal only after truncation): cross still returned None both ways
C4_Witness ==
    /\ Ran
    /\ DeltasEqual
    /\ Lo(v1) <= Hi(v2) /\ Lo(v2) <= Hi(v1)
    /\ w(v1) * h(v2) # w(v2) * h(v1)
    /\ p1 = None /\ p2 = None

(***************************************************************************)
(* C5: cross returns a point only when the computed intersection x lies in *)
(* the inclusive x-domain of both segments; when it lies outside either,   *)
(* cross returns None.                                                     *)
(***************************************************************************)
C5_OnlyInBothDomains ==
    Returned =>
        /\ p1.kind = "Some" => (Within(v1, p1.val[1]) /\ Within(v2, p1.val[1]))
        /\ p2.kind = "Some" => (Within(v1, p2.val[1]) /\ Within(v2, p2.val[1]))
        /\ (DeltasDiffer /\ ~(Within(v1, insct(v1, v2)) /\ Within(v2, insct(v1, v2))))
              => p1 = None
        /\ (DeltasDiffer /\ ~(Within(v1, insct(v2, v1)) /\ Within(v2, insct(v2, v1))))
              => p2 = None

\* a point returned at the very end of a non-degenerate x-domain
C5_Witness ==
    /\ Returned
    /\ p1.kind = "Some"
    /\ Lo(v1) < Hi(v1)
    /\ p1.val[1] = Hi(v1)
    /\ p1.val[1] # 0

(***************************************************************************)
(* C10: the division in cross never has a zero divisor: for two segments   *)
(* of non-zero height whose deltas differ, other.h * self.w - self.h *     *)
(* other.w is non-zero (no overflow, truncating division in delta), so the *)
(* call does not panic.                                                    *)
(***************************************************************************)
C10_NonZeroDenominator ==
    (Ran /\ DeltasDiffer) =>
        /\ Denominator(v1, v2) # 0
        /\ Denominator(v2, v1) # 0
        /\ Returned

\* the deltas differ and the divisor is as close to zero as it gets
C10_Witness ==
    /\ Ran
    /\ DeltasDiffer
    /\ Abs(Denominator(v1, v2)) = 1
    /\ Returned

(***************************************************************************)
(* C2: for A = (0,0)->(5,5) and B = (5,0)->(0,5), A.cross(B) and           *)
(* B.cross(A) both return a point, the two points are equal, and the x of  *)
(* the point is near 2.5: within 2..3, which also admits the truncation of *)
(* 2.5 by an integer division.                                             *)
(***************************************************************************)
C2_TestCase ==
    (Ran /\ v1 = Array(0, 0, 5, 5) /\ v2 = Array(5, 0, 0, 5)) =>
        /\ pc = "passed"
        /\ p1.kind = "Some" /\ p2.kind = "Some"
        /\ p1 = p2
        /\ 2 <= p1.val[1] /\ p1.val[1] <= 3

Min(x, y) == IF x <= y THEN x ELSE y
Max(x, y) == IF x <= y THEN y ELSE x

(***************************************************************************)
(* C6: in_range(a, b, c) is true exactly when min(a,b) <= c <= max(a,b);   *)
(* so in_range(a,b,c) = in_range(b,a,c), and in_range(a,b,a) and           *)
(* in_range(a,b,b) are true.                                               *)
(***************************************************************************)
C6_InRange ==
    pc = "done" =>
        /\ ret[1] = (Min(a, b) <= c /\ c <= Max(a, b))
        /\ ret[2] = ret[1]
        /\ ret[3]
        /\ ret[4]

\* the bounds are given in descending order and c is the upper one
C6_Witness == pc = "done" /\ a > b /\ c = a /\ ret[1] /\ ret[2]

(***************************************************************************)
(* C7: in_dom agrees with the endpoints of the segment: S.in_dom(S.xi())   *)
(* and S.in_dom(S.xf()) are true, also when xi > xf or xi = xf, and        *)
(* S.in_dom(x) is false for x below min(xi, xf) or above max(xi, xf).      *)
(***************************************************************************)
C7_InDom ==
    pc = "done" =>
        /\ ret[1]
        /\ ret[2]
        /\ (pt_x < Lo(v1) \/ pt_x > Hi(v1)) => ~ret[3]

\* a segment that runs right to left, and an x beyond its start
C7_Witness ==
    /\ pc = "done"
    /\ xi(v1) > xf(v1)
    /\ pt_x > xi(v1)
    /\ ret[1] /\ ret[2] /\ ~ret[3]

\* the same four coordinates in the other representation
AsOther(s) ==
    IF s.ty = "tuple" THEN Array(s.val[1], s.val[2], s.val[3], s.val[4])
    ELSE Tuple(s.val[0], s.val[1], s.val[2], s.val[3])

(***************************************************************************)
(* C8: adapter equivalence: the tuple and the array built from the same    *)
(* four values give the same w, h, delta, in_dom, linear and cross, cross  *)
(* between a tuple and an array in any combination included.               *)
(***************************************************************************)
C8_AdapterEquivalence ==
    pc = "done" =>
        /\ ret = Derived(AsOther(v1), v2, pt_x)
        /\ ret = Derived(v1, AsOther(v2), pt_x)
        /\ ret = Derived(AsOther(v1), AsOther(v2), pt_x)

\* a tuple crossed with an array, at a point
C8_Witness ==
    /\ pc = "done"
    /\ v1.ty = "tuple" /\ v2.ty = "array"
    /\ ret.cross.kind = "Some"
    /\ ret.linear.kind = "Ok"

(***************************************************************************)
(* C9 as stated: w() = xf - xi and h() = yf - yi without normalisation, so *)
(* over a bounded signed integer with wrap-around, w() is negative         *)
(* whenever xf < xi and h() is negative whenever yf < yi, for all          *)
(* representable coordinates.                                              *)
(***************************************************************************)
C9_NegativeWhenReversed ==
    (pc = "done" /\ ~overflow_checks) =>
        /\ xf(v1) < xi(v1) => (ret[1].kind = "Ok" /\ ret[1].val[1] < 0)
        /\ yf(v1) < yi(v1) => (ret[2].kind = "Ok" /\ ret[2].val[1] < 0)

(***************************************************************************)
(* C9 amended: whenever the difference xf - xi (yf - yi) is representable  *)
(* in T, w() (h()) returns exactly that difference, in either profile, and *)
(* so is negative whenever xf < xi (yf < yi).                              *)
(***************************************************************************)
C9_NegativeWhenRepresentable ==
    pc = "done" =>
        /\ Fits(xf(v1) - xi(v1)) =>
              /\ ret[1] = Ok(xf(v1) - xi(v1))
              /\ xf(v1) < xi(v1) => ret[1].val[1] < 0
        /\ Fits(yf(v1) - yi(v1)) =>
              /\ ret[2] = Ok(yf(v1) - yi(v1))
              /\ yf(v1) < yi(v1) => ret[2].val[1] < 0

\* both differences are representable and negative
C9_Witness ==
    /\ pc = "done"
    /\ xf(v1) < xi(v1) /\ Fits(xf(v1) - xi(v1))
    /\ yf(v1) < yi(v1) /\ Fits(yf(v1) - yi(v1))
    /\ ret[1].val[1] < 0 /\ ret[2].val[1] < 0

====
